---------------------------- MODULE Spec2Model ----------------------------
(***************************************************************************)
(* Model of the image filters of a6filter.py (class Filter): the pixel     *)
(* transforms invert, transpose, reflectHori, reflectVert, rotateRight,    *)
(* rotateLeft, monochromify, jail, vignette and pixellate, applied to the  *)
(* current image of the editor.                                            *)
(*                                                                         *)
(* An image is a record [width, height, data]; data is the row-major list  *)
(* of pixels (1-based here, 0-based in Python), a pixel is <<r, g, b>>.    *)
(***************************************************************************)
EXTENDS Integers, Sequences, FiniteSets, TLC

VARIABLES
    img,      \* the current image (Editor.getCurrent())
    status,   \* how the last call ended: "ok", "AssertionError", "out-of-range"
    lastOp,   \* the last call: <<name>> or <<name, argument>>; <<>> before any
    prev,     \* the image before the last call
    lastOp2,  \* the call before the last one
    prev2,    \* the image before the last two calls
    calls,    \* the bar-helper calls the last jail made, in order
    factors,  \* the darkening factors the last vignette computed
    nops,     \* number of calls made so far
    track     \* how many calls back the history is kept: 0, 1 or 2

vars == <<img, status, lastOp, prev, lastOp2, prev2, calls, factors, nops, track>>

-----------------------------------------------------------------------------
(* Bounds of the model.                                                    *)

MaxOps == 2       \* calls per run
MaxGeomW == 2     \* SpecGeom: image width and height
MaxGeomH == 3
MaxW == 4         \* Spec: image width and height
MaxH == 3
MaxStep == 3      \* largest pixellate step
MaxPixW == 7      \* SpecPix: image width and height
MaxPixH == 5
MaxJailW == 110   \* SpecJail: image width and height
MaxJailH == 7
MaxVigDim == 10   \* SpecVig: image width and height
MaxLow == 1       \* vignette: products that round below an exact integer

-----------------------------------------------------------------------------
(* The bitmap the filters work on (the Image class behind getCurrent()).   *)

Image(w, h, d) == [width |-> w, height |-> h, data |-> d]

getWidth(im) == im.width

getHeight(im) == im.height

InGrid(im, row, col) == row >= 0 /\ row < im.height /\ col >= 0 /\ col < im.width

\* row-major offset of (row, col), 1-based
flat(im, row, col) == row * im.width + col + 1

getPixel(im, row, col) == im.data[flat(im, row, col)]

setPixel(im, row, col, pixel) == [im EXCEPT !.data[flat(im, row, col)] = pixel]

swapPixels(im, row1, col1, row2, col2) ==
    [im EXCEPT !.data[flat(im, row1, col1)] = getPixel(im, row2, col2),
               !.data[flat(im, row2, col2)] = getPixel(im, row1, col1)]

\* the height follows from the number of pixels; the pixels stay where they
\* are in the list until they are written again
setWidth(im, w) == [im EXCEPT !.width = w, !.height = Len(im.data) \div w]

copy(im) == im

\* row and column of the 1-based list position i in image im
RowOf(im, i) == (i - 1) \div im.width
ColOf(im, i) == (i - 1) % im.width

\* the image im with every cell (row, col) set to f[<<row, col>>]: the loops
\*     for row in range(getHeight()): for col in range(getWidth()): setPixel
Refill(im, f) ==
    [im EXCEPT !.data = [i \in 1..Len(im.data) |-> f[<<RowOf(im, i), ColOf(im, i)>>]]]

Cells(im) == (0..(im.height - 1)) \X (0..(im.width - 1))

-----------------------------------------------------------------------------
(* Python float arithmetic: IEEE-754 binary64, round to nearest, ties to   *)
(* even.  A float is [m, e], standing for m * 2^e, where m is a natural    *)
(* number of at most 53 bits held as a list of 13-bit limbs, least         *)
(* significant first (TLC's integers are 32 bits wide).  Only the          *)
(* non-negative floats the filters compute are needed.                     *)

LimbBase == 2^13

Min(a, b) == IF a <= b THEN a ELSE b
Max(a, b) == IF a >= b THEN a ELSE b

RECURSIVE BigOfInt(_)
BigOfInt(n) == IF n = 0 THEN <<>> ELSE <<n % LimbBase>> \o BigOfInt(n \div LimbBase)

RECURSIVE BigToInt(_)
BigToInt(a) == IF a = <<>> THEN 0 ELSE Head(a) + LimbBase * BigToInt(Tail(a))

Limb(a, i) == IF i >= 1 /\ i <= Len(a) THEN a[i] ELSE 0

RECURSIVE Trim(_)
Trim(a) ==
    IF a # <<>> /\ a[Len(a)] = 0 THEN Trim(SubSeq(a, 1, Len(a) - 1)) ELSE a

\* the limbs of a list of column sums, carrying c in
RECURSIVE Carry(_, _)
Carry(a, c) ==
    IF a = <<>> THEN BigOfInt(c)
    ELSE LET t == Head(a) + c
         IN  <<t % LimbBase>> \o Carry(Tail(a), t \div LimbBase)

BigAdd(a, b) ==
    Trim(Carry([i \in 1..Max(Len(a), Len(b)) |-> Limb(a, i) + Limb(b, i)], 0))

\* sum of a[i] * b[k + 1 - i] over i in lo..hi
RECURSIVE ColumnSum(_, _, _, _, _)
ColumnSum(a, b, k, lo, hi) ==
    IF lo > hi THEN 0
    ELSE a[lo] * b[k + 1 - lo] + ColumnSum(a, b, k, lo + 1, hi)

BigMul(a, b) ==
    IF a = <<>> \/ b = <<>> THEN <<>>
    ELSE Trim(Carry([k \in 1..(Len(a) + Len(b) - 1) |->
                        ColumnSum(a, b, k, Max(1, k + 1 - Len(b)), Min(Len(a), k))],
                    0))

RECURSIVE IntBitLen(_)
IntBitLen(n) == IF n = 0 THEN 0 ELSE 1 + IntBitLen(n \div 2)

BitLen(a) == IF a = <<>> THEN 0 ELSE 13 * (Len(a) - 1) + IntBitLen(a[Len(a)])

ShiftLeft(a, s) ==
    IF a = <<>> THEN <<>>
    ELSE [i \in 1..(s \div 13) |-> 0] \o
         Trim(Carry([i \in 1..Len(a) |-> a[i] * 2^(s % 13)], 0))

ShiftRight(a, s) ==
    LET q == s \div 13
        r == s % 13
    IN  IF q >= Len(a) THEN <<>>
        ELSE Trim([i \in 1..(Len(a) - q) |->
                      (a[i + q] \div 2^r) + (Limb(a, i + q + 1) % 2^r) * 2^(13 - r)])

\* bit i of a (bit 0 is the least significant)
Bit(a, i) == (Limb(a, (i \div 13) + 1) \div 2^(i % 13)) % 2

\* whether any of the bits 0..n-1 of a is set
AnyBelow(a, n) ==
    \/ \E j \in 1..Min(Len(a), n \div 13) : a[j] # 0
    \/ Limb(a, (n \div 13) + 1) % 2^(n % 13) # 0

\* m * 2^e rounded to 53 significant bits, ties to even
Round53(m, e) ==
    LET L == BitLen(m)
        s == L - 53
        q == ShiftRight(m, s)
        up == Bit(m, s - 1) = 1 /\ (AnyBelow(m, s - 1) \/ Bit(q, 0) = 1)
    IN  IF L <= 53 THEN [m |-> m, e |-> e]
        ELSE [m |-> IF up THEN BigAdd(q, <<1>>) ELSE q, e |-> e + s]

\* float(n) of an int n >= 0
FloatOfInt(n) == [m |-> BigOfInt(n), e |-> 0]

\* x * y
FloatMul(x, y) == Round53(BigMul(x.m, y.m), x.e + y.e)

\* x + y
FloatAdd(x, y) ==
    LET e == Min(x.e, y.e)
    IN  Round53(BigAdd(ShiftLeft(x.m, x.e - e), ShiftLeft(y.m, y.e - e)), e)

\* int(x): the fraction is dropped
IntOfFloat(x) ==
    IF x.e >= 0 THEN BigToInt(ShiftLeft(x.m, x.e))
    ELSE BigToInt(ShiftRight(x.m, 0 - x.e))

\* the literals 0.3, 0.6, 0.1 and 0.4 as Python reads them: the nearest
\* doubles, 5404319552844595 * 2^-54, 5404319552844595 * 2^-53,
\* 7205759403792794 * 2^-56 and 7205759403792794 * 2^-54
Float03 == [m |-> <<4915, 6553, 3276, 1638, 1>>, e |-> 0 - 54]
Float06 == [m |-> <<4915, 6553, 3276, 1638, 1>>, e |-> 0 - 53]
Float01 == [m |-> <<6554, 3276, 1638, 4915, 1>>, e |-> 0 - 56]
Float04 == [m |-> <<6554, 3276, 1638, 4915, 1>>, e |-> 0 - 54]

-----------------------------------------------------------------------------
(* Geometric transforms.                                                   *)

\* transpose written with rotateRight's index: the bug of a wrong source cell
transposeAsRotate(current) ==
    LET original == copy(current)
        reshaped == setWidth(current, getHeight(current))
    IN  Refill(reshaped,
               [rc \in Cells(reshaped) |->
                   getPixel(original, getHeight(original) - rc[2] - 1, rc[1])])

transpose(current) ==
    LET original == copy(current)
        reshaped == setWidth(current, getHeight(current))
    IN  Refill(reshaped, [rc \in Cells(reshaped) |-> getPixel(original, rc[2], rc[1])])

\* reflectHori copying the right column over the left instead of swapping
RECURSIVE reflectHoriRowsCopy(_, _, _)
reflectHoriRowsCopy(current, h, row) ==
    IF row >= getHeight(current) THEN current
    ELSE LET k == getWidth(current) - 1 - h
         IN  reflectHoriRowsCopy(setPixel(current, row, h, getPixel(current, row, k)),
                                 h, row + 1)

\* one column pair of reflectHori: rows row..height-1 of columns h and k
RECURSIVE reflectHoriRows(_, _, _)
reflectHoriRows(current, h, row) ==
    IF row >= getHeight(current) THEN current
    ELSE LET k == getWidth(current) - 1 - h
         IN  reflectHoriRows(swapPixels(current, row, h, row, k), h, row + 1)

RECURSIVE reflectHoriCols(_, _)
reflectHoriCols(current, h) ==
    IF h >= getWidth(current) \div 2 THEN current
    ELSE reflectHoriCols(reflectHoriRows(current, h, 0), h + 1)

reflectHori(current) == reflectHoriCols(current, 0)

\* rotateRight without the flip of the source row
rotateRightUnflipped(current) ==
    LET original == copy(current)
        reshaped == setWidth(current, getHeight(current))
    IN  Refill(reshaped, [rc \in Cells(reshaped) |-> getPixel(original, rc[2], rc[1])])

rotateRight(current) ==
    LET original == copy(current)
        reshaped == setWidth(current, getHeight(current))
    IN  Refill(reshaped,
               [rc \in Cells(reshaped) |->
                   getPixel(original, getHeight(original) - rc[2] - 1, rc[1])])

\* rotateLeft turning the same way as rotateRight
rotateLeftAsRight(current) ==
    LET original == copy(current)
        reshaped == setWidth(current, getHeight(current))
    IN  Refill(reshaped,
               [rc \in Cells(reshaped) |->
                   getPixel(original, getHeight(original) - rc[2] - 1, rc[1])])

rotateLeft(current) ==
    LET original == copy(current)
        reshaped == setWidth(current, getHeight(current))
    IN  Refill(reshaped,
               [rc \in Cells(reshaped) |->
                   getPixel(original, rc[2], getWidth(original) - rc[1] - 1)])

RECURSIVE reflectVertCols(_, _, _)
reflectVertCols(current, v, col) ==
    IF col >= getWidth(current) THEN current
    ELSE LET k == getHeight(current) - 1 - v
         IN  reflectVertCols(swapPixels(current, v, col, k, col), v, col + 1)

RECURSIVE reflectVertRows(_, _)
reflectVertRows(current, v) ==
    IF v >= getHeight(current) \div 2 THEN current
    ELSE reflectVertRows(reflectVertCols(current, v, 0), v + 1)

reflectVert(current) == reflectVertRows(current, 0)

-----------------------------------------------------------------------------
(* Colour transforms.  A call that can fail yields [img, status].          *)

Outcome(im, st) == [img |-> im, status |-> st]

invertPixel(rgb) == <<255 - rgb[1], 255 - rgb[2], 255 - rgb[3]>>

invert(current) ==
    [current EXCEPT !.data = [pos \in 1..Len(current.data) |-> invertPixel(current.data[pos])]]

\* brightness = 0.3*red + 0.6*green + 0.1*blue, evaluated left to right
brightness(rgb) ==
    FloatAdd(FloatAdd(FloatMul(Float03, FloatOfInt(rgb[1])),
                      FloatMul(Float06, FloatOfInt(rgb[2]))),
             FloatMul(Float01, FloatOfInt(rgb[3])))

\* An argument is [type, value]: its Python type and its value as a number
\* (True is 1 and False is 0, as in Python).
IsBool(arg) == arg.type = "bool"

PyFalse == [type |-> "bool", value |-> 0]
PyTrue == [type |-> "bool", value |-> 1]

\* the loop body of monochromify for one pixel
monoPixel(rgb, sepia) ==
    LET b == brightness(rgb)
    IN  IF sepia.value = PyFalse.value
        THEN LET color == IntOfFloat(b) IN <<color, color, color>>
        ELSE LET green == IntOfFloat(FloatMul(Float06, b))
                 blue == IntOfFloat(FloatMul(Float04, b))
                 red == IntOfFloat(b)
             IN  <<red, green, blue>>

\* monochromify checking its argument only after the loop
monochromifyLateCheck(current, sepia) ==
    Outcome([current EXCEPT !.data =
                [pos \in 1..Len(current.data) |-> monoPixel(current.data[pos], sepia)]],
            IF ~IsBool(sepia) THEN "AssertionError" ELSE "ok")

monochromify(current, sepia) ==
    IF ~IsBool(sepia) THEN Outcome(current, "AssertionError")
    ELSE Outcome([current EXCEPT !.data =
                     [pos \in 1..Len(current.data) |->
                         monoPixel(current.data[pos], sepia)]],
                 "ok")

-----------------------------------------------------------------------------
(* Jail bars.                                                              *)

Red == <<255, 0, 0>>

\* int(a / b) for ints a and b > 0: the quotient with its fraction dropped
\* (the correctly rounded a / b of ints this small is never across an integer
\* from the exact quotient)
IntOfQuotient(a, b) == IF a >= 0 THEN a \div b ELSE 0 - ((0 - a) \div b)

\* the setPixel calls of _drawHBar(row, pixel), in order: <<row, col>> each
drawHBar(current, row) ==
    [i \in 1..(3 * getWidth(current)) |-> <<row + ((i - 1) % 3), (i - 1) \div 3>>]

\* the setPixel calls of _drawVBar(col, pixel), in order
drawVBar(current, col) ==
    [i \in 1..(4 * getHeight(current)) |-> <<(i - 1) \div 4, col + ((i - 1) % 4)>>]

\* interior bars at int(pos * index): the spacing truncated after the product
interiorBarsCumulative(current) ==
    LET n == (getWidth(current) - 8) \div 50
    IN  [index \in 1..n |->
            <<"V", IntOfQuotient((getWidth(current) - 4) * index, n + 1)>>]

\* the interior bars: n bars, bar index at column int(pos) * index
interiorBars(current) ==
    LET n == (getWidth(current) - 8) \div 50
        pos == IntOfQuotient(getWidth(current) - 4, n + 1)
    IN  [index \in 1..n |-> <<"V", pos * index>>]

\* the helper calls of jail, in order: <<"H", row>> or <<"V", col>>
jailCalls(current) ==
    <<<<"H", 0>>, <<"H", getHeight(current) - 3>>, <<"V", 0>>>>
    \o interiorBars(current)
    \o <<<<"V", getWidth(current) - 4>>>>

RECURSIVE jailWrites(_, _)
jailWrites(current, cs) ==
    IF cs = <<>> THEN <<>>
    ELSE (IF Head(cs)[1] = "H" THEN drawHBar(current, Head(cs)[2])
          ELSE drawVBar(current, Head(cs)[2]))
         \o jailWrites(current, Tail(cs))

\* The setPixel calls ws made one after the other, all with the same pixel;
\* a setPixel outside the grid fails and ends the call there.
paint(current, ws, pixel) ==
    LET bad == { i \in 1..Len(ws) : ~InGrid(current, ws[i][1], ws[i][2]) }
        stop == IF bad = {} THEN Len(ws) + 1
                ELSE CHOOSE i \in bad : \A j \in bad : i <= j
        painted == { flat(current, ws[i][1], ws[i][2]) : i \in 1..(stop - 1) }
    IN  Outcome([current EXCEPT !.data =
                    [i \in 1..Len(current.data) |->
                        IF i \in painted THEN pixel ELSE current.data[i]]],
                IF bad = {} THEN "ok" ELSE "out-of-range")

jail(current) == paint(current, jailWrites(current, jailCalls(current)), Red)

-----------------------------------------------------------------------------
(* Vignette.                                                               *)
(*                                                                         *)
(* With col = width and row = height, the pixel at (y, x) is darkened by   *)
(*     1 - (d / hfD)**2,  d = ((col/2 - x)**2 + (row/2 - y)**2)**(1/2),    *)
(*                        hfD = ((col**2 + row**2)**(1/2)) / 2             *)
(* whose exact value is vigNum / vigDen below.  The floats go through the  *)
(* C library's pow(), whose last bit is not specified: the computed factor *)
(* and the computed product channel * factor lie within 1e-12 of the exact *)
(* ones, on either side.  int() of the product is then the integer part of *)
(* the exact quotient, except where the exact product is an integer k and  *)
(* the computed one came out below it: there int() gives k - 1, or 0 for   *)
(* k = 0, as int() rounds toward zero.  Which products come out below is   *)
(* an input of vignette: `low` is the set of those <<channel, dd>>, and    *)
(* `cornerLow` says that the factor at (0, 0), exactly 0, came out below   *)
(* 0.  With d = 0 every step is exact.                                     *)

vigDen(current) == getWidth(current) * getWidth(current) + getHeight(current) * getHeight(current)

\* the distance taken from the middle of the pixel grid, ((col-1)/2, (row-1)/2)
vigDistPixelCentre(current, y, x) ==
    (getWidth(current) - 1 - 2 * x) * (getWidth(current) - 1 - 2 * x)
    + (getHeight(current) - 1 - 2 * y) * (getHeight(current) - 1 - 2 * y)

\* 4 * d^2 of the pixel at row y, column x
vigDist(current, y, x) ==
    (getWidth(current) - 2 * x) * (getWidth(current) - 2 * x)
    + (getHeight(current) - 2 * y) * (getHeight(current) - 2 * y)

vigNum(current, y, x) == vigDen(current) - vigDist(current, y, x)

\* the <<channel, dd>> whose exact product is a positive integer reached
\* through inexact steps (dd # 0) by a positive factor (dd # vigDen)
vigCritical(current) ==
    { <<getPixel(current, rc[1], rc[2])[ch], vigDist(current, rc[1], rc[2])>> :
        <<rc, ch>> \in { p \in Cells(current) \X (1..3) :
            LET c == getPixel(current, p[1][1], p[1][2])[p[2]]
                n == vigNum(current, p[1][1], p[1][2])
            IN  /\ vigDist(current, p[1][1], p[1][2]) # 0
                /\ c * n > 0
                /\ (c * n) % vigDen(current) = 0 } }

\* the factor computed for (y, x): num / den, and err = -1 when the float
\* came out below that
vigFactor(current, y, x, cornerLow) ==
    [num |-> vigNum(current, y, x), den |-> vigDen(current),
     err |-> IF vigNum(current, y, x) = 0 /\ cornerLow THEN 0 - 1 ELSE 0]

\* the product rounded down (math.floor) instead of toward zero
vigChannelFloor(current, c, y, x, low, cornerLow) ==
    LET k == (c * vigNum(current, y, x)) \div vigDen(current)
        below == IF vigNum(current, y, x) = 0 THEN cornerLow /\ c > 0
                 ELSE <<c, vigDist(current, y, x)>> \in low
    IN  IF below THEN k - 1 ELSE k

\* int(channel * vignette) for channel value c
vigChannel(current, c, y, x, low, cornerLow) ==
    LET k == (c * vigNum(current, y, x)) \div vigDen(current)
        below == IF vigNum(current, y, x) = 0 THEN cornerLow /\ c > 0
                 ELSE <<c, vigDist(current, y, x)>> \in low
    IN  IF below THEN (IF k = 0 THEN 0 ELSE k - 1) ELSE k

vignette(current, low, cornerLow) ==
    Refill(current,
           [rc \in Cells(current) |->
               LET pixel == getPixel(current, rc[1], rc[2])
               IN  <<vigChannel(current, pixel[1], rc[1], rc[2], low, cornerLow),
                     vigChannel(current, pixel[2], rc[1], rc[2], low, cornerLow),
                     vigChannel(current, pixel[3], rc[1], rc[2], low, cornerLow)>>])

vignetteFactors(current, cornerLow) ==
    [rc \in Cells(current) |-> vigFactor(current, rc[1], rc[2], cornerLow)]

-----------------------------------------------------------------------------
(* Pixellation.                                                            *)

\* sum of channel ch over the first n cells (column by column) of the block
RECURSIVE blockSum(_, _, _, _, _, _)
blockSum(current, ch, verstep, topblock, leftblock, n) ==
    IF n = 0 THEN 0
    ELSE getPixel(current, leftblock + ((n - 1) % verstep),
                  topblock + ((n - 1) \div verstep))[ch]
         + blockSum(current, ch, verstep, topblock, leftblock, n - 1)

\* the helper dividing by horstep**2 whatever the block's shape
pixellatehelperSquare(current, horstep, verstep, topblock, leftblock) ==
    LET red == blockSum(current, 1, verstep, topblock, leftblock, horstep * verstep)
        green == blockSum(current, 2, verstep, topblock, leftblock, horstep * verstep)
        blue == blockSum(current, 3, verstep, topblock, leftblock, horstep * verstep)
        rgb == <<IntOfQuotient(red, horstep * horstep),
                 IntOfQuotient(green, horstep * horstep),
                 IntOfQuotient(blue, horstep * horstep)>>
    IN  Refill(current,
               [rc \in Cells(current) |->
                   IF /\ rc[2] >= topblock /\ rc[2] < topblock + horstep
                      /\ rc[1] >= leftblock /\ rc[1] < leftblock + verstep
                   THEN rgb
                   ELSE getPixel(current, rc[1], rc[2])])

pixellatehelper(current, horstep, verstep, topblock, leftblock) ==
    LET red == blockSum(current, 1, verstep, topblock, leftblock, horstep * verstep)
        green == blockSum(current, 2, verstep, topblock, leftblock, horstep * verstep)
        blue == blockSum(current, 3, verstep, topblock, leftblock, horstep * verstep)
        numpixels == IF horstep = verstep THEN horstep * horstep ELSE horstep * verstep
        rgb == <<IntOfQuotient(red, numpixels), IntOfQuotient(green, numpixels),
                 IntOfQuotient(blue, numpixels)>>
    IN  Refill(current,
               [rc \in Cells(current) |->
                   IF /\ rc[2] >= topblock /\ rc[2] < topblock + horstep
                      /\ rc[1] >= leftblock /\ rc[1] < leftblock + verstep
                   THEN rgb
                   ELSE getPixel(current, rc[1], rc[2])])

\* the body of pixellate's loops for one (col, row)
pixellateBlock(current, step, col, row) ==
    LET topblock == col * step
        leftblock == row * step
    IN  IF getWidth(current) - topblock < step /\ getHeight(current) - leftblock < step
        THEN pixellatehelper(current, getWidth(current) - topblock,
                             getHeight(current) - leftblock, topblock, leftblock)
        ELSE IF getWidth(current) - topblock < step
        THEN pixellatehelper(current, getWidth(current) - topblock, step,
                             topblock, leftblock)
        ELSE IF getHeight(current) - leftblock < step
        THEN pixellatehelper(current, step, getHeight(current) - leftblock,
                             topblock, leftblock)
        ELSE pixellatehelper(current, step, step, topblock, leftblock)

colblocks(current, step) ==
    IntOfQuotient(getWidth(current), step)
    + (IF getWidth(current) % step # 0 THEN 1 ELSE 0)

rowblocks(current, step) ==
    IntOfQuotient(getHeight(current), step)
    + (IF getHeight(current) % step # 0 THEN 1 ELSE 0)

\* the loops  for col in range(colblocks): for row in range(rowblocks)
\* from their k-th iteration on
RECURSIVE pixellateLoop(_, _, _)
pixellateLoop(current, step, k) ==
    IF k >= colblocks(current, step) * rowblocks(current, step) THEN current
    ELSE pixellateLoop(pixellateBlock(current, step, k \div rowblocks(current, step),
                                      k % rowblocks(current, step)),
                       step, k + 1)

IsInt(arg) == arg.type = "int"

pixellate(current, step) ==
    IF ~IsInt(step) THEN Outcome(current, "AssertionError")
    ELSE IF ~(step.value > 0) THEN Outcome(current, "AssertionError")
    ELSE Outcome(pixellateLoop(current, step.value, 0), "ok")

-----------------------------------------------------------------------------
(* Calls.  Each action is one call of a Filter method on the current       *)
(* image; the history variables record the call and the images before it.  *)

Record(op, new, st, cs, fs) ==
    /\ img' = new
    /\ status' = st
    /\ lastOp' = IF track >= 1 THEN op ELSE lastOp
    /\ prev' = IF track >= 1 THEN img ELSE prev
    /\ lastOp2' = IF track >= 2 THEN lastOp ELSE lastOp2
    /\ prev2' = IF track >= 2 THEN prev ELSE prev2
    /\ calls' = cs
    /\ factors' = fs
    /\ nops' = nops + 1
    /\ UNCHANGED track

Invert == nops < MaxOps /\ Record(<<"invert">>, invert(img), "ok", <<>>, <<>>)

Transpose == nops < MaxOps /\ Record(<<"transpose">>, transpose(img), "ok", <<>>, <<>>)

ReflectHori == nops < MaxOps /\ Record(<<"reflectHori">>, reflectHori(img), "ok", <<>>, <<>>)

ReflectVert == nops < MaxOps /\ Record(<<"reflectVert">>, reflectVert(img), "ok", <<>>, <<>>)

RotateRight == nops < MaxOps /\ Record(<<"rotateRight">>, rotateRight(img), "ok", <<>>, <<>>)

RotateLeft == nops < MaxOps /\ Record(<<"rotateLeft">>, rotateLeft(img), "ok", <<>>, <<>>)

\* what a caller may pass for sepia: a bool, or the int 0 or 1, or 1.0
SepiaArgs == {PyFalse, PyTrue} \cup {[type |-> t, value |-> v] : t \in {"int", "float"}, v \in {0, 1}}

Monochromify ==
    /\ nops < MaxOps
    /\ \E sepia \in SepiaArgs :
        LET r == monochromify(img, sepia)
        IN  Record(<<"monochromify", sepia>>, r.img, r.status, <<>>, <<>>)

Jail ==
    /\ nops < MaxOps
    /\ LET r == jail(img)
       IN  Record(<<"jail">>, r.img, r.status, jailCalls(img), <<>>)

\* the roundings of one call: at most MaxLow products come out below
Roundings(current) == { low \in SUBSET vigCritical(current) : Cardinality(low) <= MaxLow }

Vignette ==
    /\ nops < MaxOps
    /\ \E low \in Roundings(img), cornerLow \in BOOLEAN :
        Record(<<"vignette">>, vignette(img, low, cornerLow), "ok", <<>>,
               vignetteFactors(img, cornerLow))

\* what a caller may pass for step: an int, or 2.0, or True
StepArgs ==
    {[type |-> "int", value |-> v] : v \in (0 - 1)..MaxStep}
    \cup {[type |-> "float", value |-> 2], PyTrue}

Pixellate ==
    /\ nops < MaxOps
    /\ \E step \in StepArgs :
        LET r == pixellate(img, step)
        IN  Record(<<"pixellate", step>>, r.img, r.status, <<>>, <<>>)

-----------------------------------------------------------------------------
(* Initial images.                                                         *)

Black == <<0, 0, 0>>
White == <<255, 255, 255>>

Start(im, t) ==
    /\ img = im
    /\ status = "ok"
    /\ lastOp = <<>>
    /\ prev = im
    /\ lastOp2 = <<>>
    /\ prev2 = im
    /\ calls = <<>>
    /\ factors = <<>>
    /\ nops = 0
    /\ track = t

Palette == <<Black, White, Red, <<0, 3, 2>>, <<200, 100, 50>>, <<37, 74, 111>>>>

\* the w x h image whose pixel at (row, col) is colour
\* seed[1] * row + seed[2] * col + seed[3] of the palette (modulo its length)
PatternImage(w, h, seed) ==
    Image(w, h, [i \in 1..(w * h) |->
                    Palette[((seed[1] * ((i - 1) \div w) + seed[2] * ((i - 1) % w)
                              + seed[3]) % Len(Palette)) + 1]])

\* all black, all white, and two mixed images
Seeds == {<<0, 0, 0>>, <<0, 0, 1>>, <<1, 2, 3>>, <<3, 1, 4>>}

\* every image of up to MaxGeomW x MaxGeomH pixels, each pixel black or white
GeomImages ==
    UNION { { Image(wh[1], wh[2], d) : d \in [1..(wh[1] * wh[2]) -> {Black, White}] } :
            wh \in (1..MaxGeomW) \X (1..MaxGeomH) }

InitGeom == \E im \in GeomImages : Start(im, 2)

NextGeom ==
    \/ Transpose
    \/ ReflectHori
    \/ ReflectVert
    \/ RotateRight
    \/ RotateLeft

SpecGeom == InitGeom /\ [][NextGeom]_vars

\* every filter, on small images
Init ==
    \E w \in 1..MaxW, h \in 1..MaxH, seed \in {<<1, 2, 3>>} : Start(PatternImage(w, h, seed), 0)

Next ==
    \/ Invert
    \/ Transpose
    \/ ReflectHori
    \/ ReflectVert
    \/ RotateRight
    \/ RotateLeft
    \/ Monochromify
    \/ Jail
    \/ Vignette
    \/ Pixellate

Spec == Init /\ [][Next]_vars

\* the calls that take an argument, with the image before each call kept
InitArgs ==
    \E w \in 1..MaxW, h \in 1..MaxH, seed \in Seeds : Start(PatternImage(w, h, seed), 1)

NextArgs ==
    \/ Monochromify
    \/ Pixellate

SpecArgs == InitArgs /\ [][NextArgs]_vars

\* pixellate alone, on images of several blocks
InitPix ==
    \E w \in 1..MaxPixW, h \in 1..MaxPixH, seed \in Seeds : Start(PatternImage(w, h, seed), 1)

NextPix == Pixellate

SpecPix == InitPix /\ [][NextPix]_vars

\* jail alone, on images wide enough for interior bars
InitJail ==
    \E w \in 1..MaxJailW, h \in 1..MaxJailH, seed \in {<<0, 0, 1>>, <<1, 2, 3>>} :
        Start(PatternImage(w, h, seed), 1)

NextJail == Jail

SpecJail == InitJail /\ [][NextJail]_vars

\* vignette alone, on all-white images
InitVig ==
    \E w \in 1..MaxVigDim, h \in 1..MaxVigDim : Start(PatternImage(w, h, <<0, 0, 1>>), 1)

\* one call a run
NextVig == nops = 0 /\ Vignette

SpecVig == InitVig /\ [][NextVig]_vars

-----------------------------------------------------------------------------
(* Properties.                                                             *)

\* the name of the last call ("" before any call)
OpName == IF lastOp = <<>> THEN "" ELSE lastOp[1]
OpName2 == IF lastOp2 = <<>> THEN "" ELSE lastOp2[1]

NotUniform(im) == \E i, j \in 1..Len(im.data) : im.data[i] # im.data[j]

\* C1: rotateRight gives the same dimensions and the same pixel at every
\* (row, col) as transpose followed by reflectHori, from every image: a
\* rotateRight result equals the composition applied to the image before
\* it, and a transpose-then-reflectHori result equals rotateRight of the
\* image before the two calls.
C1_RotateRightIsTransposeReflect ==
    /\ OpName = "rotateRight" => img = reflectHori(transpose(prev))
    /\ (OpName2 = "transpose" /\ OpName = "reflectHori") => img = rotateRight(prev2)

C1_Witness ==
    /\ OpName = "rotateRight"
    /\ prev.width # prev.height
    /\ NotUniform(prev)
    /\ img.data # prev.data

\* C2: rotateRight then rotateLeft, and rotateLeft then rotateRight, give
\* back the image they started from: width, height and every pixel.
C2_RotateRoundTrip ==
    /\ (OpName2 = "rotateRight" /\ OpName = "rotateLeft") => img = prev2
    /\ (OpName2 = "rotateLeft" /\ OpName = "rotateRight") => img = prev2

C2_Witness ==
    /\ OpName2 = "rotateRight"
    /\ OpName = "rotateLeft"
    /\ prev2.width # prev2.height
    /\ NotUniform(prev2)
    /\ prev.data # prev2.data

\* C9: one transpose swaps width and height and puts the old pixel
\* (col, row) at (row, col); two transposes give back the image they
\* started from.
C9_TransposeTwice ==
    /\ OpName = "transpose" =>
          /\ img.width = prev.height
          /\ img.height = prev.width
          /\ \A rc \in Cells(img) : getPixel(img, rc[1], rc[2]) = getPixel(prev, rc[2], rc[1])
    /\ (OpName2 = "transpose" /\ OpName = "transpose") => img = prev2

C9_Witness ==
    /\ OpName2 = "transpose"
    /\ OpName = "transpose"
    /\ prev2.width # prev2.height
    /\ prev.data # prev2.data

BlockRows(im, step, row) ==
    ((row \div step) * step)..(Min(((row \div step) + 1) * step, im.height) - 1)
BlockCols(im, step, col) ==
    ((col \div step) * step)..(Min(((col \div step) + 1) * step, im.width) - 1)

RECURSIVE SumOver(_, _, _)
SumOver(im, ch, cells) ==
    IF cells = {} THEN 0
    ELSE LET rc == CHOOSE c \in cells : TRUE
         IN  getPixel(im, rc[1], rc[2])[ch] + SumOver(im, ch, cells \ {rc})

\* the truncated average of the block of (row, col), per channel
BlockAverage(im, step, row, col) ==
    LET block == BlockRows(im, step, row) \X BlockCols(im, step, col)
    IN  [ch \in 1..3 |-> SumOver(im, ch, block) \div Cardinality(block)]

\* C3: after pixellate(step), step >= 1, the dimensions are unchanged and
\* every pixel holds, per channel, the sum of its block's channel values
\* before the call divided by the block's own number of pixels, fraction
\* dropped; the blocks are step x step from (0, 0), clipped at the right and
\* bottom edges.  A 7 x 5 image with step 3 has 3 block columns and 2 block
\* rows, the last ones 1 wide and 2 tall.
C3_PixellateBlockAverage ==
    (OpName = "pixellate" /\ status = "ok") =>
        /\ img.width = prev.width
        /\ img.height = prev.height
        /\ \A rc \in Cells(img) :
              getPixel(img, rc[1], rc[2])
                  = BlockAverage(prev, lastOp[2].value, rc[1], rc[2])
        /\ (prev.width = 7 /\ prev.height = 5 /\ lastOp[2].value = 3) =>
              /\ colblocks(prev, 3) = 3
              /\ rowblocks(prev, 3) = 2
              /\ BlockCols(prev, 3, 6) = 6..6
              /\ BlockRows(prev, 3, 4) = 3..4

C3_Witness ==
    /\ OpName = "pixellate"
    /\ status = "ok"
    /\ lastOp[2].value = 3
    /\ prev.width = 7
    /\ prev.height = 5
    /\ NotUniform(prev)
    /\ img # prev

\* C4: monochromify with a sepia that is not a bool, and pixellate with a
\* step that is not an int or is <= 0, end in an AssertionError with the
\* width, the height and every pixel as they were before the call.
C4_InvalidArgumentLeavesImage ==
    /\ (OpName = "monochromify" /\ lastOp[2].type # "bool") =>
          (status = "AssertionError" /\ img = prev)
    /\ (OpName = "pixellate" /\ (lastOp[2].type # "int" \/ lastOp[2].value <= 0)) =>
          (status = "AssertionError" /\ img = prev)
    /\ status = "AssertionError" => img = prev

C4_Witness ==
    /\ OpName = "monochromify"
    /\ lastOp[2].type = "int"
    /\ status = "AssertionError"
    /\ monochromify(prev, PyTrue).img # prev
    /\ monochromify(prev, PyFalse).img # prev

\* C5: every helper call of jail keeps the documented margin:
\* _drawHBar(r) has 0 <= r and r + 2 < height, _drawVBar(c) has 0 <= c and
\* c + 3 < width, on an image of any width and height.
C5_JailCallsKeepMargin ==
    \A i \in 1..Len(calls) :
        IF calls[i][1] = "H"
        THEN 0 <= calls[i][2] /\ calls[i][2] + 2 < img.height
        ELSE 0 <= calls[i][2] /\ calls[i][2] + 3 < img.width

\* whether jail paints (row, col) of a w x h image
InBars(w, h, row, col) ==
    LET n == (w - 8) \div 50
        s == (w - 4) \div (n + 1)
    IN  \/ row <= 2
        \/ row >= h - 3
        \/ col <= 3
        \/ col >= w - 4
        \/ \E i \in 1..n : col >= s * i /\ col <= s * i + 3

InRange(im) ==
    \A i \in 1..Len(im.data) : \A ch \in 1..3 : im.data[i][ch] >= 0 /\ im.data[i][ch] <= 255

FactorNegative(f) == f.num < 0 \/ (f.num = 0 /\ f.err < 0)
FactorAboveOne(f) == f.num > f.den \/ (f.num = f.den /\ f.err > 0)

WhiteTen == Image(10, 10, [i \in 1..100 |-> <<255, 255, 255>>])

Corners == {<<0, 0>>, <<0, 9>>, <<9, 0>>, <<9, 9>>}

\* p is at least as dark as q
AsDark(p, q) == \A ch \in 1..3 : p[ch] <= q[ch]

\* C8 as claimed: after vignette on the 10 x 10 all-white image, pixel (5, 5)
\* has factor exactly 1 and stays white, no pixel is brighter than it, and
\* each of the four corners is at least as dark as every pixel that is not a
\* corner.
C8_CornersDarkest ==
    (OpName = "vignette" /\ prev = WhiteTen) =>
        /\ factors[<<5, 5>>].num = factors[<<5, 5>>].den
        /\ factors[<<5, 5>>].err = 0
        /\ getPixel(img, 5, 5) = <<255, 255, 255>>
        /\ \A rc \in Cells(img) : AsDark(getPixel(img, rc[1], rc[2]), getPixel(img, 5, 5))
        /\ \A c \in Corners : \A rc \in Cells(img) \ Corners :
              AsDark(getPixel(img, c[1], c[2]), getPixel(img, rc[1], rc[2]))

\* C8, amended: after vignette on the 10 x 10 all-white image, pixel (5, 5)
\* has factor exactly 1 and stays white and no pixel is brighter than it;
\* the corners (0, 0), (0, 9) and (9, 0) are each at least as dark as every
\* pixel that is not a corner, (0, 0) ending black; the corner (9, 9) ends at
\* (91,91,91), at least as dark only as the pixels outside row 0 and column
\* 0, and brighter than the pixels (0, 1) and (1, 0), which end at
\* (45,45,45).
C8_CornersDarkestAmended ==
    (OpName = "vignette" /\ prev = WhiteTen) =>
        /\ factors[<<5, 5>>].num = factors[<<5, 5>>].den
        /\ factors[<<5, 5>>].err = 0
        /\ getPixel(img, 5, 5) = <<255, 255, 255>>
        /\ \A rc \in Cells(img) : AsDark(getPixel(img, rc[1], rc[2]), getPixel(img, 5, 5))
        /\ \A c \in Corners \ {<<9, 9>>} : \A rc \in Cells(img) \ Corners :
              AsDark(getPixel(img, c[1], c[2]), getPixel(img, rc[1], rc[2]))
        /\ getPixel(img, 0, 0) = <<0, 0, 0>>
        /\ getPixel(img, 9, 9) = <<91, 91, 91>>
        /\ \A rc \in (1..9) \X (1..9) :
              AsDark(getPixel(img, 9, 9), getPixel(img, rc[1], rc[2]))
        /\ getPixel(img, 0, 1) = <<45, 45, 45>>
        /\ getPixel(img, 1, 0) = <<45, 45, 45>>

C8_Witness ==
    /\ OpName = "vignette"
    /\ prev = WhiteTen
    /\ getPixel(img, 0, 9) = <<45, 45, 45>>
    /\ getPixel(img, 4, 4) # <<255, 255, 255>>

=============================================================================
